---- MODULE Spec2Model ----
(***************************************************************************)
(* Model of the SPH particle System (src/System.cpp) and of the two force  *)
(* terms under src/forces.                                                 *)
(*                                                                         *)
(* Numbers.  The program computes in `float`.  The model computes in       *)
(* fixed point: the integer n stands for the real n / SCALE, products and  *)
(* quotients are rounded towards minus infinity.  0.001 is 10, 0.2 is      *)
(* 2000, 100.0 is 1000000.                                                 *)
(*                                                                         *)
(* Indices.  The i-th particle of the C++ vector (i = 0..N-1) is           *)
(* particles[i+1]; slot i*6+k of a C++ state vector is element             *)
(* Slot(i+1, k) = i*6+k+1 of the modelled sequence.                        *)
(***************************************************************************)
EXTENDS Integers, Sequences, FiniteSets, TLC

\* ------------------------------------------------------------------ bounds
MaxParticles == 2
MaxForces == 2
MaxConstraints == 1
MaxSteps == 1

\* ------------------------------------------------------- float arithmetic
SCALE == 10000

Abs(a) == IF a < 0 THEN -a ELSE a

\* a * b, exact floor of the real product
Mul(a, b) ==
    LET qa == a \div SCALE
        ra == a % SCALE
        qb == b \div SCALE
        rb == b % SCALE
    IN  qa * qb * SCALE + qa * rb + ra * qb + (ra * rb) \div SCALE

\* a / b for b # 0, exact floor of the real quotient
Div(a, b) ==
    LET n == IF b < 0 THEN -a ELSE a
        d == Abs(b)
    IN  (n \div d) * SCALE + ((n % d) * SCALE) \div d

RECURSIVE IsqrtIter(_, _, _)
IsqrtIter(n, lo, hi) ==
    IF lo >= hi THEN lo
    ELSE LET mid == (lo + hi + 1) \div 2
         IN  IF mid * mid <= n THEN IsqrtIter(n, mid, hi)
             ELSE IsqrtIter(n, lo, mid - 1)

\* largest r with r * r <= n
Isqrt(n) == IsqrtIter(n, 0, IF n < 46340 THEN n ELSE 46340)

\* pow(a, .5f) for a >= 0
Sqrt(a) == Isqrt(a * SCALE)

\* the sequence <<F(1), .., F(n)>>, built element by element
RECURSIVE Tab(_, _)
Tab(F(_), n) == IF n = 0 THEN <<>> ELSE Append(Tab(F, n - 1), F(n))

\* --------------------------------------------------------------- Vector3f
Zero3 == <<0, 0, 0>>
VAdd(a, b) == <<a[1] + b[1], a[2] + b[2], a[3] + b[3]>>
VSub(a, b) == <<a[1] - b[1], a[2] - b[2], a[3] - b[3]>>
VScale(c, a) == <<Mul(c, a[1]), Mul(c, a[2]), Mul(c, a[3])>>
VDiv(a, c) == <<Div(a[1], c), Div(a[2], c), Div(a[3], c)>>
NormSq(a) == a[1] * a[1] + a[2] * a[2] + a[3] * a[3]
\* Vector3f::norm()
Norm(a) == Isqrt(NormSq(a))

RECURSIVE SumSq(_, _)
SumSq(v, n) == IF n = 0 THEN 0 ELSE v[n] * v[n] + SumSq(v, n - 1)
\* VectorXf::norm()
NormX(v) == Isqrt(SumSq(v, Len(v)))

\* xa - xb, and old + h * deriv, on VectorXf
XSub(a, b) == Tab(LAMBDA s : a[s] - b[s], Len(a))
XAxpy(x, h, d) == Tab(LAMBDA s : x[s] + Mul(h, d[s]), Len(x))

\* ------------------------------------------------------------------ state
VARIABLES
    particles,    \* System::particles, a sequence of Particle records
    forces,       \* System::forces, a sequence of [kind, targets]
    constraints,  \* System::constraints
    time,         \* System::time
    dt,           \* System::dt
    steps,        \* number of step() calls made so far (bounds the model)
    last          \* the call that produced this state: its name, arguments, result

vars == <<particles, forces, constraints, time, dt, steps, last>>

\* A Particle as constructed: positioned, at its start velocity, no force yet.
NewParticle(pos, vel, m, mov) ==
    [position |-> pos, velocity |-> vel, force |-> Zero3, mass |-> m,
     density |-> 0, pressure |-> 0, movable |-> mov,
     startPosition |-> pos, startVelocity |-> vel]

\* Particle::reset
ParticleReset(p) == NewParticle(p.startPosition, p.startVelocity, p.mass, p.movable)

\* Force::addAsTarget
AddAsTarget(f, i) == [f EXCEPT !.targets = Append(f.targets, i)]

\* slot i*6+k of a state vector, for the particle particles[i]
Slot(i, k) == (i - 1) * 6 + k + 1

\* System::getDim
GetDim(ps) == Len(ps) * 3 * 2

\* getState writing every particle's velocity before its position
GetStateVelocityFirst(ps) ==
    LET R(s) ==
            LET i == (s - 1) \div 6 + 1
                k == (s - 1) % 6
            IN  IF k < 3 THEN ps[i].velocity[k + 1] ELSE ps[i].position[k - 2]
    IN  Tab(R, GetDim(ps))

\* System::getState
GetState(ps) ==
    LET R(s) ==
            LET i == (s - 1) \div 6 + 1
                k == (s - 1) % 6
            IN  IF k < 3 THEN ps[i].position[k + 1] ELSE ps[i].velocity[k - 2]
    IN  Tab(R, GetDim(ps))

\* setState without the test of the movable flag
SetStateParticlesAll(ps, src) ==
    LET Written(i) ==
            [ps[i] EXCEPT
                !.position = <<src[Slot(i, 0)], src[Slot(i, 1)], src[Slot(i, 2)]>>,
                !.velocity = <<src[Slot(i, 3)], src[Slot(i, 4)], src[Slot(i, 5)]>>]
    IN  Tab(Written, Len(ps))

\* System::setState(src, t): the particles written
SetStateParticles(ps, src) ==
    LET Written(i) ==
            IF ps[i].movable
            THEN [ps[i] EXCEPT
                    !.position = <<src[Slot(i, 0)], src[Slot(i, 1)], src[Slot(i, 2)]>>,
                    !.velocity = <<src[Slot(i, 3)], src[Slot(i, 4)], src[Slot(i, 5)]>>]
            ELSE ps[i]
    IN  Tab(Written, Len(ps))

\* System::setState(src, t) on the pair (particles, time)
SetState2(sys, src, t) ==
    [sys EXCEPT !.particles = SetStateParticles(sys.particles, src), !.time = t]

\* System::getTime
GetTime(sys) == sys.time

\* System::setState(src)
SetState1(sys, src) == SetState2(sys, src, GetTime(sys))

\* ------------------------------------------- collaborators outside src/
\* smoothing radius of the kernels and of the neighbour grid
H == 1000

\* sequence 1, 2, .., n
Iota(n) == Tab(LAMBDA j : j, n)

\* Grid::query: the particles within H of pos, in container order
Query(ps, pos) ==
    LET Near(j) == NormSq(VSub(pos, ps[j].position)) <= H * H
    IN  SelectSeq(Iota(Len(ps)), Near)

\* |r|^2 / H^2
RelSq(r) == Div(Mul(r[1], r[1]) + Mul(r[2], r[2]) + Mul(r[3], r[3]), Mul(H, H))

\* Poly6::W, Poly6::dW, Poly6::ddW
Poly6W(r) == SCALE - RelSq(r)
Poly6dW(r) == <<-Div(r[1], H), -Div(r[2], H), -Div(r[3], H)>>
Poly6ddW(r) == RelSq(r) - SCALE

\* Viscosity::ddW
ViscosityddW(r) == SCALE - Div(Norm(r), H)

RECURSIVE DensitySum(_, _, _, _)
DensitySum(ps, pos, q, n) ==
    IF n = 0 THEN 0
    ELSE DensitySum(ps, pos, q, n - 1)
         + Mul(ps[q[n]].mass, Poly6W(VSub(pos, ps[q[n]].position)))

\* DensityField::eval(p) for p = ps[i]
DensityEval(ps, i) ==
    LET q == Query(ps, ps[i].position)
    IN  DensitySum(ps, ps[i].position, q, Len(q))

RECURSIVE ColorGradSum(_, _, _, _)
ColorGradSum(ps, pos, q, n) ==
    IF n = 0 THEN Zero3
    ELSE VAdd(ColorGradSum(ps, pos, q, n - 1),
              VScale(Div(ps[q[n]].mass, ps[q[n]].density),
                     Poly6dW(VSub(pos, ps[q[n]].position))))

\* ColorField::dEval(pos)
ColorDEval(ps, pos) ==
    LET q == Query(ps, pos) IN ColorGradSum(ps, pos, q, Len(q))

RECURSIVE ColorLapSum(_, _, _, _)
ColorLapSum(ps, pos, q, n) ==
    IF n = 0 THEN 0
    ELSE ColorLapSum(ps, pos, q, n - 1)
         + Mul(Div(ps[q[n]].mass, ps[q[n]].density),
               Poly6ddW(VSub(pos, ps[q[n]].position)))

\* ColorField::ddEval(pos)
ColorDDEval(ps, pos) ==
    LET q == Query(ps, pos) IN ColorLapSum(ps, pos, q, Len(q))

\* ------------------------------------------------------- ViscosityForce
\* float u = 100.f
U == 1000000

\* the right-hand side of the assignment in the neighbour loop, for pi = ps[i]
\* and pj = ps[j]
ViscosityPair(ps, i, j) ==
    VScale(ViscosityddW(VSub(ps[i].position, ps[j].position)),
           VDiv(VScale(ps[j].mass, VSub(ps[j].velocity, ps[i].velocity)),
                ps[j].density))

\* the neighbour loop over the first n particles of the query result q: every
\* pass assigns viscosityForce, so its value after the loop is the last pass's
RECURSIVE ViscosityInner(_, _, _, _)
ViscosityInner(ps, i, q, n) ==
    IF n = 0 THEN Zero3
    ELSE LET before == ViscosityInner(ps, i, q, n - 1)
         IN  ViscosityPair(ps, i, q[n])

\* one pass of the loop over the targets: pi->force += u * viscosityForce
ViscosityOne(ps, i) ==
    LET q == Query(ps, ps[i].position)
    IN  [ps EXCEPT ![i].force = VAdd(@, VScale(U, ViscosityInner(ps, i, q, Len(q))))]

\* ViscosityForce::apply, over the first n targets
RECURSIVE ViscosityApply(_, _, _)
ViscosityApply(ps, targets, n) ==
    IF n = 0 THEN ps
    ELSE ViscosityOne(ViscosityApply(ps, targets, n - 1), targets[n])

\* --------------------------------------------------------- SurfaceForce
\* float sigma = 72.75f
SIGMA == 727500
\* float certainThreshold = .01f
CertainThreshold == 100

\* the body of the loop over the targets, for pi = ps[i] and the gradient n
SurfacePush(ps, i, n) ==
    IF Norm(n) > CertainThreshold
    THEN [ps EXCEPT ![i].force =
            VAdd(@, VDiv(VScale(Mul(-SIGMA, ColorDDEval(ps, ps[i].position)), n),
                         Norm(n)))]
    ELSE ps

\* one pass of the loop over the targets
SurfaceOne(ps, i) == SurfacePush(ps, i, ColorDEval(ps, ps[i].position))

\* SurfaceForce::apply, over the first n targets
RECURSIVE SurfaceApply(_, _, _)
SurfaceApply(ps, targets, n) ==
    IF n = 0 THEN ps
    ELSE SurfaceOne(SurfaceApply(ps, targets, n - 1), targets[n])

\* f->apply(this)
ForceApply(ps, f) ==
    IF f.kind = "viscosity" THEN ViscosityApply(ps, f.targets, Len(f.targets))
    ELSE SurfaceApply(ps, f.targets, Len(f.targets))

\* ------------------------------------------------------ System::derivEval
\* What a phase of derivEval did, in the order it did it: "clear", "density",
\* "pressure" with the particle written, "mean" with the divisor, "apply" with
\* the force, "derivative".
Ev(name, arg) == [ev |-> name, arg |-> arg]

\* System::clearForces
ClearForces(ps) ==
    [particles |-> Tab(LAMBDA i : [ps[i] EXCEPT !.force = Zero3], Len(ps)),
     log |-> Tab(LAMBDA i : Ev("clear", i), Len(ps))]

\* the first loop of computeForces over the first n particles: every density,
\* summed into restDensity
RECURSIVE DensityLoop(_, _)
DensityLoop(ps, n) ==
    IF n = 0 THEN [particles |-> ps, restDensity |-> 0]
    ELSE LET prev == DensityLoop(ps, n - 1)
             d == DensityEval(prev.particles, n)
         IN  [particles |-> [prev.particles EXCEPT ![n].density = d],
              restDensity |-> prev.restDensity + d]

\* restDensity /= particles.size(): 0.0f / 0 is NaN
MeanDensity(sum, n) == IF n = 0 THEN "NaN" ELSE sum \div n

\* float k = .1f
K == 1000

\* the second loop of computeForces
PressureLoop(ps, restDensity) ==
    Tab(LAMBDA i : [ps[i] EXCEPT !.pressure = Mul(K, ps[i].density - restDensity)],
        Len(ps))

\* the third loop of computeForces, over the first n forces
RECURSIVE ApplyLoop(_, _, _)
ApplyLoop(ps, fs, n) ==
    IF n = 0 THEN ps
    ELSE ForceApply(ApplyLoop(ps, fs, n - 1), fs[n])

\* computeForces after its first loop, dens being what that loop left: the
\* division, the pressures, the forces
ComputeForcesRest(dens, fs) ==
    [particles |->
        ApplyLoop(PressureLoop(dens.particles,
                               MeanDensity(dens.restDensity, Len(dens.particles))),
                  fs, Len(fs)),
     log |-> Tab(LAMBDA i : Ev("density", i), Len(dens.particles))
             \o <<Ev("mean", Len(dens.particles))>>
             \o Tab(LAMBDA i : Ev("pressure", i), Len(dens.particles))
             \o Tab(LAMBDA f : Ev("apply", f), Len(fs))]

\* computeForces with the pressure loop run before the density loop
ComputeForcesPressureFirst(ps, fs) ==
    [particles |->
        ApplyLoop(DensityLoop(PressureLoop(ps, MeanDensity(0, Len(ps))), Len(ps)).particles,
                  fs, Len(fs)),
     log |-> Tab(LAMBDA i : Ev("pressure", i), Len(ps))
             \o Tab(LAMBDA i : Ev("density", i), Len(ps))
             \o <<Ev("mean", Len(ps))>>
             \o Tab(LAMBDA f : Ev("apply", f), Len(fs))]

\* System::computeForces
ComputeForces(ps, fs) == ComputeForcesRest(DensityLoop(ps, Len(ps)), fs)

\* System::computeDerivative
ComputeDerivative(ps) ==
    LET Dst(s) ==
            LET i == (s - 1) \div 6 + 1
                k == (s - 1) % 6
            IN  IF k < 3 THEN ps[i].velocity[k + 1]
                ELSE Div(ps[i].force[k - 2], ps[i].density)
    IN  Tab(Dst, GetDim(ps))

\* derivEval's last statement, c and f being what clearForces and
\* computeForces left
DerivEvalReturn(c, f) ==
    [particles |-> f.particles,
     ret |-> ComputeDerivative(f.particles),
     log |-> c.log \o f.log \o <<Ev("derivative", Len(f.particles))>>]

\* derivEval after clearForces
DerivEvalForces(c, fs) == DerivEvalReturn(c, ComputeForces(c.particles, fs))

\* System::derivEval: the particles it leaves, the vector it returns, what it
\* did
DerivEval(ps, fs) == DerivEvalForces(ClearForces(ps), fs)

\* ------------------------------------------------ System::checkCollisions
\* the container: -0.2f and 0.2f on X and Z, -2.0f on Y
XMin == -2000
XMax == 2000
ZMin == -2000
ZMax == 2000
YMin == -20000

\* a loop of checkCollisions that also treats a particle on the wall as outside
PassNonStrict(v, n, pk, vk, sk, bound, low) ==
    LET After(s) ==
            LET i == (s - 1) \div 6 + 1
                k == (s - 1) % 6
                hit == /\ i <= n
                       /\ IF low THEN v[Slot(i, pk)] <= bound
                          ELSE v[Slot(i, pk)] >= bound
                outward == IF low THEN v[Slot(i, vk)] < 0 ELSE v[Slot(i, vk)] > 0
            IN  IF hit /\ k = pk THEN bound
                ELSE IF hit /\ outward /\ k = vk THEN -v[Slot(i, sk)]
                ELSE v[s]
    IN  Tab(After, Len(v))

\* One loop of checkCollisions over the n particles.  The loop tests component
\* pk of each particle against bound (low: below it, else above it), sets it
\* to bound, and when component vk points outward assigns it minus component sk.
Pass(v, n, pk, vk, sk, bound, low) ==
    LET After(s) ==
            LET i == (s - 1) \div 6 + 1
                k == (s - 1) % 6
                hit == /\ i <= n
                       /\ IF low THEN v[Slot(i, pk)] < bound
                          ELSE v[Slot(i, pk)] > bound
                outward == IF low THEN v[Slot(i, vk)] < 0 ELSE v[Slot(i, vk)] > 0
            IN  IF hit /\ k = pk THEN bound
                ELSE IF hit /\ outward /\ k = vk THEN -v[Slot(i, sk)]
                ELSE v[s]
    IN  Tab(After, Len(v))

\* the five loops, in the order of the source
PassXLow(v, n) == Pass(v, n, 0, 3, 3, XMin, TRUE)
PassXHigh(v, n) == Pass(v, n, 0, 3, 3, XMax, FALSE)
PassZLow(v, n) == Pass(v, n, 2, 5, 3, ZMin, TRUE)
PassZHigh(v, n) == Pass(v, n, 2, 5, 3, ZMax, FALSE)
PassYLow(v, n) == Pass(v, n, 1, 4, 4, YMin, TRUE)

\* System::checkCollisions(newState) with n = particles.size()
CheckCollisions(newState, n) ==
    PassYLow(PassZHigh(PassZLow(PassXHigh(PassXLow(newState, n), n), n), n), n)

\* ------------------------------------------------------------ the Solver
\* Solver::simulateStep(system, h), the explicit Euler scheme: read the state,
\* evaluate the derivative, write state + h * derivative at time + h.
\* sys is [particles, forces, time].
EulerWrite(sys, h, oldState, d) ==
    SetState2([sys EXCEPT !.particles = d.particles],
              CheckCollisions(XAxpy(oldState, h, d.ret), Len(sys.particles)),
              GetTime(sys) + h)

SimulateStep(sys, h) ==
    EulerWrite(sys, h, GetState(sys.particles), DerivEval(sys.particles, sys.forces))

\* ----------------------------------------------------------- System::step
\* dt(0.001) of the constructor, and the 0.001f of the rescaling
DT0 == 10
TOL == 10

\* a rescaling that avoids the division by zero by adding to the error
RescaleEpsilon(h, err) == Mul(h, Sqrt(Div(TOL, err + 1)))

\* if (err > 0) dt *= pow(0.001f / err, .5f)
Rescale(h, err) == IF err > 0 THEN Mul(h, Sqrt(Div(TOL, err))) ELSE h

\* the end of the adaptive branch: dt rescaled, setState(before); half is the
\* system after the two half steps, err the error measured
TrialEnd(half, h, before, err) ==
    [sys |-> SetState1(half, before), dt |-> Rescale(h, err), err |-> err,
     calls |-> <<h, h \div 2, h \div 2>>]

\* xb = getState(); err = (xa - xb).norm()
TrialError(half, h, before, xa) ==
    TrialEnd(half, h, before, NormX(XSub(xa, GetState(half.particles))))

\* xa = getState(); setState(before); the two half steps; full is the system
\* after the full step
TrialHalves(full, h, before) ==
    TrialError(SimulateStep(SimulateStep(SetState1(full, before), h \div 2), h \div 2),
               h, before, GetState(full.particles))

\* the adaptive branch: the system and dt it leaves, the error it measured,
\* the step sizes it handed to the Solver
AdaptiveTrial(sys, h) == TrialHalves(SimulateStep(sys, h), h, GetState(sys.particles))

\* the last statement of step, solver->simulateStep(this, dt), after the branch
Accept(trial) ==
    [sys |-> SimulateStep(trial.sys, trial.dt), dt |-> trial.dt,
     err |-> trial.err, calls |-> Append(trial.calls, trial.dt)]

\* System::step(adaptive): the system and dt after the call, the error measured
\* (0 without a trial), the step sizes handed to the Solver in order
Step(sys, h, adaptive) ==
    Accept(IF adaptive THEN AdaptiveTrial(sys, h)
           ELSE [sys |-> sys, dt |-> h, err |-> 0, calls |-> <<>>])

\* ------------------------------------------------- System: the containers
\* System::addParticle(p): particles and forces after the call
AddParticleOp(ps, fs, p) ==
    [particles |-> Append(ps, p),
     forces |-> Tab(LAMBDA f : AddAsTarget(fs[f], Len(ps) + 1), Len(fs))]

\* addForce that registers every particle of the System with the new force
AddForceOpRetroactive(ps, fs, f) ==
    [particles |-> ps, forces |-> Append(fs, [f EXCEPT !.targets = Iota(Len(ps))])]

\* System::addForce(f)
AddForceOp(ps, fs, f) == [particles |-> ps, forces |-> Append(fs, f)]

\* System::addConstraint(c)
AddConstraintOp(cs, c) == Append(cs, c)

\* System::free
FreeOp(ps, fs) == [particles |-> <<>>, forces |-> <<>>]

\* System::reset
ResetOp(ps) == Tab(LAMBDA i : ParticleReset(ps[i]), Len(ps))

\* ----------------------------------------------------------------- inputs
\* particles handed to addParticle: a movable one in motion and an anchor
Templates ==
    { NewParticle(<<500, 0, 0>>, <<10000, 0, 0>>, SCALE, TRUE),
      NewParticle(Zero3, Zero3, 2 * SCALE, FALSE) }

\* the six components of the first particle in a vector handed to setState
Samples == { <<300, -200, 100, 2000, -1000, 3000>> }

\* the vectors of length 6n built from a set of six-tuples
Vectors(S, n) ==
    { [s \in 1..(6 * n) |-> c[(s - 1) \div 6 + 1][((s - 1) % 6) + 1]] : c \in [1..n -> S] }

\* the six components of one particle in a vector handed to checkCollisions:
\* positions below, on and above the walls, velocities of either sign
CollSamples ==
    { <<x, y, z, v[1], v[2], v[3]>> :
        x \in {-2500, 2000, 2500}, y \in {-20500, -20000}, z \in {-2500, -2000, 2500},
        v \in { <<-1000, -2000, -3000>>, <<1000, 2000, 3000>>, <<1000, -2000, -3000>> } }

\* the vectors of length 6n handed to setState: particle i gets a sample, every
\* component moved by 10 * i so that no two slots of the vector hold the
\* same particle's values
StateVectors(n) ==
    { Tab(LAMBDA s : base[((s - 1) % 6) + 1] + 10 * ((s - 1) \div 6), 6 * n) :
        base \in Samples }

\* the clock values handed to setState(src, t)
Times == {500}

\* the target list a force is constructed with: no particle, or the particles
\* the System holds at that moment in container order
TargetLists(n) == { <<>>, Iota(n) }

Kinds == {"viscosity", "surface"}

\* ---------------------------------------------------------------- actions
Sys == [particles |-> particles, forces |-> forces, time |-> time]

Init ==
    /\ particles = <<>>
    /\ forces = <<>>
    /\ constraints = <<>>
    /\ time = 0
    /\ dt = DT0
    /\ steps = 0
    /\ last = [op |-> "System"]

AddParticle ==
    /\ Len(particles) < MaxParticles
    /\ \E p \in Templates :
        LET r == AddParticleOp(particles, forces, p)
        IN  /\ particles' = r.particles
            /\ forces' = r.forces
            /\ last' = [op |-> "addParticle", p |-> p]
    /\ UNCHANGED <<constraints, time, dt, steps>>

AddForce ==
    /\ Len(forces) < MaxForces
    /\ \E k \in Kinds, ts \in TargetLists(Len(particles)) :
        LET f == [kind |-> k, targets |-> ts]
            r == AddForceOp(particles, forces, f)
        IN  /\ particles' = r.particles
            /\ forces' = r.forces
            /\ last' = [op |-> "addForce", f |-> f]
    /\ UNCHANGED <<constraints, time, dt, steps>>

AddConstraint ==
    /\ Len(constraints) < MaxConstraints
    /\ constraints' = AddConstraintOp(constraints, Len(constraints) + 1)
    /\ last' = [op |-> "addConstraint"]
    /\ UNCHANGED <<particles, forces, time, dt, steps>>

Free ==
    /\ particles' = FreeOp(particles, forces).particles
    /\ forces' = FreeOp(particles, forces).forces
    /\ last' = [op |-> "free"]
    /\ UNCHANGED <<constraints, time, dt, steps>>

Reset ==
    /\ particles' = ResetOp(particles)
    /\ last' = [op |-> "reset"]
    /\ UNCHANGED <<forces, constraints, time, dt, steps>>

SetStateCall ==
    /\ \E src \in StateVectors(Len(particles)) :
        LET r == SetState1(Sys, src)
        IN  /\ particles' = r.particles
            /\ time' = r.time
            /\ last' = [op |-> "setState", args |-> 1, src |-> src, t |-> 0]
    /\ UNCHANGED <<forces, constraints, dt, steps>>

SetStateTimeCall ==
    /\ \E src \in StateVectors(Len(particles)), t \in Times :
        LET r == SetState2(Sys, src, t)
        IN  /\ particles' = r.particles
            /\ time' = r.time
            /\ last' = [op |-> "setState", args |-> 2, src |-> src, t |-> t]
    /\ UNCHANGED <<forces, constraints, dt, steps>>

\* the System after derivEval returned r
DerivEvalDone(r) ==
    /\ particles' = r.particles
    /\ last' = [op |-> "derivEval", log |-> r.log, ret |-> r.ret]

DerivEvalCall ==
    /\ DerivEvalDone(DerivEval(particles, forces))
    /\ UNCHANGED <<forces, constraints, time, dt, steps>>

\* the System after step(adaptive) ended as r
StepDone(r, adaptive) ==
    /\ particles' = r.sys.particles
    /\ time' = r.sys.time
    /\ dt' = r.dt
    /\ last' = [op |-> "step", adaptive |-> adaptive, err |-> r.err,
                calls |-> r.calls]

StepCall ==
    /\ steps < MaxSteps
    /\ \E adaptive \in BOOLEAN : StepDone(Step(Sys, dt, adaptive), adaptive)
    /\ steps' = steps + 1
    /\ UNCHANGED <<forces, constraints>>

\* checkCollisions(src) for the vector src the caller holds
CheckCollisionsCall ==
    /\ last.op = "newState"
    /\ last' = [op |-> "checkCollisions", src |-> last.src,
                ret |-> CheckCollisions(last.src, Len(particles))]
    /\ UNCHANGED <<particles, forces, constraints, time, dt, steps>>

Next ==
    \/ AddParticle
    \/ AddForce
    \/ AddConstraint
    \/ Free
    \/ Reset
    \/ SetStateCall
    \/ SetStateTimeCall
    \/ DerivEvalCall
    \/ StepCall

Spec == Init /\ [][Next]_vars

\* the time stepping: a System is populated, written and stepped
NextStep ==
    \/ AddParticle
    \/ AddForce
    \/ SetStateCall
    \/ SetStateTimeCall
    \/ StepCall

SpecStep == Init /\ [][NextStep]_vars

\* the derivative evaluation on its own
NextDeriv ==
    \/ AddParticle
    \/ AddForce
    \/ SetStateCall
    \/ DerivEvalCall

SpecDeriv == Init /\ [][NextDeriv]_vars

\* the collision correction, a function of its argument and the particle count
\* A System of n particles and a caller holding a vector of length 6n.
InitColl ==
    /\ \E n \in 0..MaxParticles :
        /\ particles = Tab(LAMBDA i : NewParticle(Zero3, Zero3, SCALE, TRUE), n)
        /\ \E src \in Vectors(CollSamples, n) : last = [op |-> "newState", src |-> src]
    /\ forces = <<>>
    /\ constraints = <<>>
    /\ time = 0
    /\ dt = DT0
    /\ steps = 0

NextColl == CheckCollisionsCall

SpecColl == InitColl /\ [][NextColl]_vars

\* ------------------------------------------------------------- properties
\* position and velocity of every particle, and the clock, of the System sys
\* equal those of this state's successor
SameMotion(sys) ==
    /\ time' = sys.time
    /\ Len(particles') = Len(sys.particles)
    /\ \A i \in 1..Len(sys.particles) :
        /\ particles'[i].position = sys.particles[i].position
        /\ particles'[i].velocity = sys.particles[i].velocity

\* C1: after step(adaptive = true) every particle's position and velocity and
\* the clock are what one Solver invocation with the dt left by the call makes
\* of the positions, velocities and clock before the call: nothing of the
\* three trial invocations remains.
C1_TrialsDoNotLeak ==
    [][(last'.op = "step" /\ last'.adaptive) => SameMotion(SimulateStep(Sys, dt'))]_vars

\* the three axes of checkCollisions: the slots of the position and of the
\* velocity component, the lower wall, the upper wall if there is one
Axes ==
    { [p |-> 1, v |-> 4, lo |-> XMin, hi |-> XMax, closed |-> TRUE],
      [p |-> 3, v |-> 6, lo |-> ZMin, hi |-> ZMax, closed |-> TRUE],
      [p |-> 2, v |-> 5, lo |-> YMin, hi |-> YMin, closed |-> FALSE] }

\* on axis a particle i of the vector src lies below the lower wall, above the
\* upper wall
Below(src, i, a) == src[6 * (i - 1) + a.p] < a.lo
Above(src, i, a) == a.closed /\ src[6 * (i - 1) + a.p] > a.hi

\* C2: checkCollisions negates the velocity component of an axis, and of that
\* axis, when the position on the axis was clamped and the component pointed
\* outward; the velocity component of an axis that was not clamped is returned
\* unchanged.
C2_ReflectsOwnAxis ==
    last.op = "checkCollisions" =>
        \A i \in 1..Len(particles), a \in Axes :
            LET vin == last.src[6 * (i - 1) + a.v]
                vout == last.ret[6 * (i - 1) + a.v]
            IN  /\ (Below(last.src, i, a) /\ vin < 0) => vout = -vin
                /\ (Above(last.src, i, a) /\ vin > 0) => vout = -vin
                /\ (~Below(last.src, i, a) /\ ~Above(last.src, i, a)) => vout = vin

\* particle i of the vector v lies in the container
Inside(v, i) == \A a \in Axes : ~Below(v, i, a) /\ ~Above(v, i, a)

\* C3: checkCollisions returns a vector in which every particle lies in the
\* container (X and Z in [-0.2, 0.2], Y >= -2.0), returns the six components
\* of a particle that was in the container unchanged, and writes no Particle.
C3_ClampsIntoContainer ==
    [][last'.op = "checkCollisions" =>
        /\ particles' = particles
        /\ Len(last'.ret) = 6 * Len(particles)
        /\ \A i \in 1..Len(particles) :
            /\ Inside(last'.ret, i)
            /\ Inside(last'.src, i) =>
                \A k \in 1..6 : last'.ret[6 * (i - 1) + k] = last'.src[6 * (i - 1) + k]]_vars

\* a call on two particles, the first in the container and the second outside
\* it on all three axes
C3_Witness ==
    /\ last.op = "checkCollisions"
    /\ Len(particles) = 2
    /\ Inside(last.src, 1)
    /\ \A a \in Axes : Below(last.src, 2, a) \/ Above(last.src, 2, a)
    /\ Inside(last.ret, 2)

\* C4: over setState(src), setState(src, t) and step an immovable particle
\* keeps its position and velocity; setState gives a movable particle i the
\* slots 6i..6i+2 as position and 6i+3..6i+5 as velocity; setState(src, t)
\* sets the clock to t and setState(src) leaves it.
C4_ImmovableKept ==
    [][last'.op \in {"setState", "step"} =>
        /\ Len(particles') = Len(particles)
        /\ \A i \in 1..Len(particles) :
            ~particles[i].movable =>
                /\ particles'[i].position = particles[i].position
                /\ particles'[i].velocity = particles[i].velocity
        /\ last'.op = "setState" =>
            /\ \A i \in 1..Len(particles) :
                particles[i].movable =>
                    /\ particles'[i].position =
                        <<last'.src[6 * (i - 1) + 1], last'.src[6 * (i - 1) + 2],
                          last'.src[6 * (i - 1) + 3]>>
                    /\ particles'[i].velocity =
                        <<last'.src[6 * (i - 1) + 4], last'.src[6 * (i - 1) + 5],
                          last'.src[6 * (i - 1) + 6]>>
            /\ time' = IF last'.args = 2 THEN last'.t ELSE time]_vars

\* after a step, setState(src, t) on an anchor and a movable particle: the
\* anchor is where it started, not where src puts it, the other is where src
\* puts it
C4_Witness ==
    /\ last.op = "setState"
    /\ last.args = 2
    /\ steps > 0
    /\ Len(particles) = 2
    /\ ~particles[1].movable
    /\ particles[1].position = particles[1].startPosition
    /\ particles[1].position # <<last.src[1], last.src[2], last.src[3]>>
    /\ particles[2].movable
    /\ particles[2].position = <<last.src[7], last.src[8], last.src[9]>>

\* C5: derivEval on a System of zero particles divides nothing by the particle
\* count and applies no force.
C5_EmptyIsNoOp ==
    (last.op = "derivEval" /\ Len(particles) = 0) =>
        \A a \in DOMAIN last.log : last.log[a].ev \notin {"mean", "apply"}

\* the state vectors A (one step of size h) and B (two steps of size h / 2)
\* of the adaptive trial
TrialA(sys, h) == GetState(SimulateStep(sys, h).particles)
TrialB(sys, h) ==
    GetState(SimulateStep(SimulateStep(sys, h \div 2), h \div 2).particles)

\* C6: step(true) with equal trial states A and B leaves dt as it was and
\* hands that dt to the accepted Solver invocation; dt changes only when the
\* error is positive; step(false) invokes the Solver once, with dt, and leaves
\* dt.
C6_ZeroErrorKeepsDt ==
    [][last'.op = "step" =>
        IF last'.adaptive
        THEN /\ TrialA(Sys, dt) = TrialB(Sys, dt) => (dt' = dt /\ last'.err = 0)
             /\ dt' # dt => last'.err > 0
             /\ last'.calls = <<dt, dt \div 2, dt \div 2, dt'>>
        ELSE /\ dt' = dt
             /\ last'.calls = <<dt>>]_vars

\* an adaptive step of a System with a moving particle whose trial states
\* agreed
C6_Witness ==
    /\ last.op = "step"
    /\ last.adaptive
    /\ last.err = 0
    /\ dt = DT0
    /\ \E i \in 1..Len(particles) :
        particles[i].movable /\ particles[i].position # particles[i].startPosition

\* C7: getState() has length getDim() = 6 * (number of particles), and holds
\* the i-th particle's position in slots 6i..6i+2 and its velocity in slots
\* 6i+3..6i+5.
C7_StateLayout ==
    /\ Len(GetState(particles)) = GetDim(particles)
    /\ GetDim(particles) = 6 * Len(particles)
    /\ \A i \in 1..Len(particles), c \in 1..3 :
        /\ GetState(particles)[6 * (i - 1) + c] = particles[i].position[c]
        /\ GetState(particles)[6 * (i - 1) + 3 + c] = particles[i].velocity[c]

\* two particles that differ in position and velocity, after a step and a
\* constraint
C7_Witness ==
    /\ Len(particles) = 2
    /\ steps > 0
    /\ Len(constraints) > 0
    /\ particles[1].position # particles[2].position
    /\ particles[1].velocity # particles[2].velocity
    /\ particles[2].position # particles[2].velocity

\* the phase an event of derivEval belongs to
Phase(e) ==
    CASE e.ev = "clear" -> 1
      [] e.ev = "density" -> 2
      [] e.ev = "mean" -> 3
      [] e.ev = "pressure" -> 4
      [] e.ev = "apply" -> 5
      [] e.ev = "derivative" -> 6

\* how often the event e occurs in log
Occurrences(log, e) == Cardinality({a \in DOMAIN log : log[a] = e})

RECURSIVE DensityTotal(_, _)
DensityTotal(ps, n) == IF n = 0 THEN 0 ELSE DensityTotal(ps, n - 1) + ps[n].density

\* C8: derivEval zeroes every force accumulator, then writes every density,
\* then every pressure as k * (density - mean density), then applies every
\* registered force once in registration order, and builds the derivative
\* last; the forces act on the densities and pressures of the current
\* configuration; no position or velocity is written.
C8_PhaseOrder ==
    [][last'.op = "derivEval" =>
        /\ \A a, b \in DOMAIN last'.log :
            a < b => /\ Phase(last'.log[a]) <= Phase(last'.log[b])
                     /\ Phase(last'.log[a]) = 5 /\ Phase(last'.log[b]) = 5
                            => last'.log[a].arg < last'.log[b].arg
        /\ \A i \in 1..Len(particles), name \in {"clear", "density", "pressure"} :
            Occurrences(last'.log, Ev(name, i)) = 1
        /\ \A f \in 1..Len(forces) : Occurrences(last'.log, Ev("apply", f)) = 1
        /\ last'.log[Len(last'.log)].ev = "derivative"
        /\ Len(particles') = Len(particles)
        /\ \A i \in 1..Len(particles) :
            /\ particles'[i].position = particles[i].position
            /\ particles'[i].velocity = particles[i].velocity
            /\ particles'[i].density = DensityEval(particles, i)
            /\ particles'[i].pressure =
                Mul(K, particles'[i].density
                       - DensityTotal(particles', Len(particles)) \div Len(particles))
        /\ particles' =
            ApplyLoop(ClearForces(particles').particles, forces, Len(forces))]_vars

\* a derivEval on two particles of different pressure with two forces, one of
\* which pushed a particle
C8_Witness ==
    /\ last.op = "derivEval"
    /\ Len(particles) = 2
    /\ Len(forces) = 2
    /\ forces[1].kind # forces[2].kind
    /\ particles[1].pressure # particles[2].pressure
    /\ \E i \in 1..2 : particles[i].force # Zero3

RECURSIVE ViscositySum(_, _, _, _)
ViscositySum(ps, i, q, n) ==
    IF n = 0 THEN Zero3
    ELSE VAdd(ViscositySum(ps, i, q, n - 1), ViscosityPair(ps, i, q[n]))

\* C9: ViscosityForce::apply adds to the force of each target pi the
\* coefficient times the sum, over all particles pj the neighbour query at
\* pi.position returns, of mass_j * (velocity_j - velocity_i) / density_j * ddW.
C9_SumsAllNeighbours ==
    (/\ last.op = "derivEval"
     /\ Len(forces) = 1
     /\ forces[1].kind = "viscosity"
     /\ forces[1].targets = Iota(Len(particles))) =>
        \A i \in 1..Len(particles) :
            LET q == Query(particles, particles[i].position)
            IN  particles[i].force = VScale(U, ViscositySum(particles, i, q, Len(q)))

\* C10: addParticle(p) appends p to the particles and adds it once to the
\* targets of every force registered before the call; addForce(f) appends f as
\* it was constructed, adding no particle of the System to its targets.
C10_TargetsOnAddParticle ==
    [][/\ last'.op = "addParticle" =>
            /\ particles' = Append(particles, last'.p)
            /\ Len(forces') = Len(forces)
            /\ \A f \in 1..Len(forces) :
                /\ forces'[f].kind = forces[f].kind
                /\ forces'[f].targets = Append(forces[f].targets, Len(particles) + 1)
       /\ last'.op = "addForce" =>
            /\ particles' = particles
            /\ forces' = Append(forces, last'.f)]_vars

\* the second particle added after two forces, the second of which was
\* constructed without targets when the first particle was already there
C10_Witness ==
    /\ last.op = "addParticle"
    /\ Len(particles) = 2
    /\ Len(forces) = 2
    /\ forces[1].targets = <<1, 2>>
    /\ forces[2].targets = <<2>>

====
